---- MODULE Spec2Model ----
(***************************************************************************)
(* A model of plot_2d-eem.py: the batch converter that lists a folder,     *)
(* loads every .csv excitation-emission table and writes one contour plot  *)
(* per table.                                                              *)
(*                                                                         *)
(* File names and format strings are sequences of one-character strings,   *)
(* so that endswith, slicing and the ordering used by sorted() are         *)
(* computed and not assumed.  Intensities are integers.                    *)
(***************************************************************************)
EXTENDS Integers, Sequences, FiniteSets, TLC

VARIABLES
    dir,          \* the folder on disk: file name -> content
    dir0,         \* the folder as it was when the current process started
    listable,     \* os.listdir(filePath) succeeds
    outFormat,    \* args.save_as
    pc,           \* position of the running process in main()
    fileNames,    \* main: fileNames
    idx,          \* main: position of the for loop in fileNames
    file,         \* main: the loop variable
    XYZ,          \* main: the X, Y, Z bound by line 90
    count,        \* main: count
    console,      \* lines printed by the current process
    prevConsole,  \* lines printed by the previous process over this folder
    log,          \* calls and prints of the current process, in order
    fontSize,     \* plt.rcParams['font.size'] of the current process
    figures,      \* figures pyplot holds open in the current process
    run,          \* number of the current process (1 = first invocation)
    arg,          \* argument of the function under study (function specs)
    ret           \* its result (function specs)

vars == <<dir, dir0, listable, outFormat, pc, fileNames, idx, file,
          XYZ, count, console, prevConsole, log, fontSize, figures, run,
          arg, ret>>

mainVars == <<dir, dir0, listable, outFormat, fileNames, idx, file,
              XYZ, count, console, prevConsole, log, fontSize, figures, run>>

-----------------------------------------------------------------------------
(* Bounds of the model.                                                    *)

MaxEntries == 3

MaxRuns == 2

MaxList == 4

MaxDim == 3

MaxBase == 4

MaxH == 4

-----------------------------------------------------------------------------
(* Strings.                                                                *)

Ord ==
    [ch \in {".", "0", "1", "2", "3", "4", "5", "6", "7", "8", "9", "C", "S",
             "V", "a", "b", "c", "d", "f", "g", "n", "p", "s", "v", "x"} |->
        CASE ch = "." -> 46  [] ch = "0" -> 48  [] ch = "1" -> 49
          [] ch = "2" -> 50  [] ch = "3" -> 51  [] ch = "4" -> 52
          [] ch = "5" -> 53  [] ch = "6" -> 54  [] ch = "7" -> 55
          [] ch = "8" -> 56  [] ch = "9" -> 57  [] ch = "C" -> 67
          [] ch = "S" -> 83
          [] ch = "V" -> 86  [] ch = "a" -> 97  [] ch = "b" -> 98
          [] ch = "c" -> 99  [] ch = "d" -> 100 [] ch = "f" -> 102
          [] ch = "g" -> 103 [] ch = "n" -> 110 [] ch = "p" -> 112
          [] ch = "s" -> 115 [] ch = "v" -> 118 [] ch = "x" -> 120]

\* a < b for Python strings: the first position where they differ decides,
\* and a string comes after every proper prefix of it.
StrLess(a, b) ==
    LET n    == IF Len(a) < Len(b) THEN Len(a) ELSE Len(b)
        diff == {i \in 1..n : a[i] # b[i]}
    IN  IF diff = {} THEN Len(a) < Len(b)
        ELSE LET k == CHOOSE i \in diff : \A j \in diff : i <= j
             IN  Ord[a[k]] < Ord[b[k]]

endswith(s, suffix) ==
    /\ Len(s) >= Len(suffix)
    /\ SubSeq(s, Len(s) - Len(suffix) + 1, Len(s)) = suffix

CsvSuffix == <<".", "c", "s", "v">>

\* The number of items that sorted() places before item i: the smaller ones
\* and, the sort being stable, the equal ones that come earlier.
Rank(s, i) ==
    Cardinality({j \in DOMAIN s :
                    \/ StrLess(s[j], s[i])
                    \/ (~StrLess(s[i], s[j]) /\ j < i)})

sorted(s) ==
    [k \in 1..Len(s) |-> s[CHOOSE i \in DOMAIN s : Rank(s, i) = k - 1]]

Range(s) == {s[i] : i \in DOMAIN s}

RECURSIVE Perms(_)
Perms(S) ==
    IF S = {} THEN {<<>>}
    ELSE UNION {{<<x>> \o p : p \in Perms(S \ {x})} : x \in S}

RECURSIVE SomeOrder(_)
SomeOrder(S) ==
    IF S = {} THEN <<>>
    ELSE LET x == CHOOSE e \in S : TRUE IN <<x>> \o SomeOrder(S \ {x})

Rotate(q, k) == [i \in 1..Len(q) |-> q[((i + k - 1) % Len(q)) + 1]]

Reverse(q) == [i \in 1..Len(q) |-> q[Len(q) + 1 - i]]

\* line 14: os.listdir gives the entries in arbitrary order.  The orders
\* explored are every rotation of one enumeration and of its reverse.
listdir(entries) ==
    IF entries = {} THEN {<<>>}
    ELSE UNION {{Rotate(q, k), Reverse(Rotate(q, k))} :
                   k \in 0..(Cardinality(entries) - 1),
                   q \in {SomeOrder(entries)}}

-----------------------------------------------------------------------------
(* get_fileNames                                                           *)

\* The filter of line 15 without sorted().
get_fileNames_unsorted(fileList) ==
    SelectSeq(fileList, LAMBDA f : endswith(f, CsvSuffix))

\* line 15: the entries ending with '.csv' are kept, then sorted.
get_fileNames(fileList) ==
    CHOOSE names \in
        {sorted(kept) :
            kept \in {SelectSeq(fileList, LAMBDA f : endswith(f, CsvSuffix))}} :
        TRUE

-----------------------------------------------------------------------------
(* File contents.  A table is what read_csv sees: the header row (column   *)
(* labels, read as strings), the first column (row labels, read as         *)
(* integers) and one body row per row label.                               *)

Table(header, index, body) ==
    [kind |-> "table", header |-> header, index |-> index, body |-> body]

Image == [kind |-> "image", header |-> <<>>, index |-> <<>>, body |-> <<>>]

Other == [kind |-> "other", header |-> <<>>, index |-> <<>>, body |-> <<>>]

Digits == {"0", "1", "2", "3", "4", "5", "6", "7", "8", "9"}

IsIntLiteral(s) == s # <<>> /\ \A i \in DOMAIN s : s[i] \in Digits

RECURSIVE ParseInt(_)
ParseInt(s) ==
    IF s = <<>> THEN 0
    ELSE 10 * ParseInt(SubSeq(s, 1, Len(s) - 1)) + (Ord[s[Len(s)]] - Ord["0"])

\* DataFrame.T: row labels and column labels swap, values[j][i] = body[i][j].
Transpose(df) ==
    [index   |-> df.columns,
     columns |-> df.index,
     values  |-> [j \in 1..Len(df.columns) |->
                    [i \in 1..Len(df.index) |-> df.values[i][j]]]]

\* The grid in matrix indexing: len(x) rows and len(y) columns.
meshgridIJ(x, y) ==
    [X |-> [i \in 1..Len(x) |-> [j \in 1..Len(y) |-> x[i]]],
     Y |-> [i \in 1..Len(x) |-> [j \in 1..Len(y) |-> y[j]]]]

\* np.meshgrid(x, y): both results have len(y) rows and len(x) columns.
meshgrid(x, y) ==
    [X |-> [i \in 1..Len(y) |-> [j \in 1..Len(x) |-> x[j]]],
     Y |-> [i \in 1..Len(y) |-> [j \in 1..Len(x) |-> y[i]]]]

NoFrame == [index |-> <<>>, columns |-> <<>>, values |-> <<>>]

NoXYZ == [ok |-> FALSE, X |-> <<>>, Y |-> <<>>, Z |-> NoFrame]

\* pd.read_csv(..., header=0, index_col=0): fails on what is not a table.
read_csv(content) ==
    [index |-> content.index, columns |-> content.header, values |-> content.body]

\* lines 31-34, for the frame Z of line 28.
GridOver(Z) ==
    IF \E i \in DOMAIN Z.index : ~IsIntLiteral(Z.index[i]) THEN NoXYZ
    ELSE LET x  == Z.columns
             y  == [i \in DOMAIN Z.index |-> ParseInt(Z.index[i])]
             XY == meshgrid(x, y)
         IN  [ok |-> TRUE, X |-> XY.X, Y |-> XY.Y, Z |-> Z]

get_XYZ(content) ==
    IF content.kind # "table" THEN NoXYZ
    ELSE CHOOSE r \in {GridOver(Z) : Z \in {Transpose(read_csv(content))}} :
            TRUE

Shape(M) == <<Len(M), IF Len(M) = 0 THEN 0 ELSE Len(M[1])>>

-----------------------------------------------------------------------------
(* plot_contour                                                            *)

RECURSIVE MaxFrom(_, _, _)
MaxFrom(s, i, m) ==
    IF i > Len(s) THEN m
    ELSE MaxFrom(s, i + 1, IF s[i] > m THEN s[i] ELSE m)

\* max(s): the items are visited in order, the largest so far is kept.
SeqMax(s) == MaxFrom(s, 2, s[1])

\* Z.max(): the maximum of every column.
ColumnMax(Z) ==
    [j \in 1..Len(Z.columns) |->
        SeqMax([i \in 1..Len(Z.index) |-> Z.values[i][j]])]

\* A rounding that sends every tie to the hundred above.
RoundHalfUp(v) ==
    LET q == v \div 100
        r == v % 100
    IN  IF r < 50 THEN 100 * q ELSE 100 * (q + 1)

\* round(v, -2): to the nearest hundred, a tie going to the even hundred.
RoundHundreds(v) ==
    LET q == v \div 100
        r == v % 100
    IN  IF r < 50 THEN 100 * q
        ELSE IF r > 50 THEN 100 * (q + 1)
        ELSE IF q % 2 = 0 THEN 100 * q ELSE 100 * (q + 1)

MaxZ(Z) == RoundHundreds(SeqMax(ColumnMax(Z)))

CeilDiv(a, b) == IF b > 0 THEN -((-a) \div b) ELSE -(a \div (-b))

\* np.arange(0, maxZ+1, maxZ/5) for maxZ # 0: ceil((maxZ+1)/(maxZ/5)) values
\* 0, maxZ/5, 2*maxZ/5, ...; maxZ is a multiple of 100, so maxZ/5 is whole.
Ticks(maxZ) ==
    LET n == CeilDiv(5 * (maxZ + 1), maxZ)
    IN  [k \in 1..(IF n > 0 THEN n ELSE 0) |-> ((k - 1) * maxZ) \div 5]

Png == <<"p", "n", "g">>

Svg == <<"s", "v", "g">>

Pdf == <<"p", "d", "f">>

Csv == <<"c", "s", "v">>

\* The formats the figure writer accepts, among those of the model.
SupportedFormats == {Png, Svg, Pdf}

\* fileName[:-4]
DropLast4(fileName) ==
    IF Len(fileName) > 4 THEN SubSeq(fileName, 1, Len(fileName) - 4) ELSE <<>>

\* A save over the input file itself.
OutNameKeepsInput(fileName, fmt) == fileName

\* The name, within the folder, of f'{outfile}.{outFormat}'.
OutName(fileName, fmt) == DropLast4(fileName) \o <<".">> \o fmt

\* lines 66-71, for the maxZ of line 66.
ColorbarAndSave(maxZ, fileName, fmt) ==
    IF maxZ = 0
    THEN [failedAt |-> "set_ticks", maxZ |-> maxZ, ticks |-> <<>>,
          outName |-> <<>>]
    ELSE [failedAt |-> IF fmt \in SupportedFormats THEN "none" ELSE "savefig",
          maxZ     |-> maxZ,
          ticks    |-> Ticks(maxZ),
          outName  |-> OutName(fileName, fmt)]

\* What a call does: where it raised ("none": it returned), the maxZ and the
\* ticks it computed, and the name of the file that savefig writes.
plot_contour(X, Y, Z, fileName, fmt) ==
    IF \/ Shape(X) # Shape(Z.values) \/ Shape(Y) # Shape(Z.values)
       \/ Len(Z.index) < 2 \/ Len(Z.columns) < 2
    THEN [failedAt |-> "contourf", maxZ |-> 0, ticks |-> <<>>, outName |-> <<>>]
    ELSE CHOOSE r \in {ColorbarAndSave(maxZ, fileName, fmt) :
                          maxZ \in {MaxZ(Z)}} : TRUE

-----------------------------------------------------------------------------
(* The folders the program is run over.                                    *)

W300 == <<"3", "0", "0">>

W310 == <<"3", "1", "0">>

W320 == <<"3", "2", "0">>

\* A well-formed table whose largest intensity is 437.
Peak ==
    Table(<<W300, W310, W320>>, <<350, 360>>,
          <<<<120, 437, 260>>, <<80, 15, 3>>>>)

\* A well-formed table of negative intensities, the largest -437.
Negative ==
    Table(<<W300, W310, W320>>, <<350, 360>>,
          <<<<-500, -437, -600>>, <<-450, -520, -610>>>>)

\* A well-formed table whose largest intensity, 30, rounds to 0.
Faint ==
    Table(<<W300, W310, W320>>, <<350, 360>>,
          <<<<10, 30, 5>>, <<0, 2, 7>>>>)

\* A table with a column label that is no integer.
BadHeader ==
    Table(<<W300, <<"3", "x", "0">>, W320>>, <<350, 360>>,
          <<<<120, 437, 260>>, <<80, 15, 3>>>>)

\* A table with a single column: too thin for a contour plot.
Thin == Table(<<W300>>, <<350, 360>>, <<<<5>>, <<437>>>>)

CsvContents == {Peak, Negative, Faint, BadHeader, Thin}

NamePool ==
    {<<"a", ".", "c", "s", "v">>, <<"a", "b", ".", "c", "s", "v">>,
     <<"b", ".", "c", "s", "v">>, <<"a", ".", "p", "n", "g">>,
     <<"c", ".", "C", "S", "V">>}

Folders ==
    UNION {{d \in [S -> CsvContents \cup {Other}] :
                \A n \in S : (d[n].kind = "table") <=> endswith(n, CsvSuffix)} :
           S \in {T \in SUBSET NamePool : Cardinality(T) <= MaxEntries}}

Formats == {Png, Svg, Pdf, Csv}

\* plt.rcParams['font.size'] of a fresh process.
DefaultFontSize == 10

\* plt.rcParams.update({'font.size': 18})
FontSizeUpdate == 18

-----------------------------------------------------------------------------
(* Printed lines and logged events.                                        *)

FoundLine(names) ==
    [line |-> "There are", count |-> Len(names), total |-> Len(names),
     names |-> names]

FailedLine(f) ==
    [line |-> "Failed to plot", count |-> 0, total |-> 0, names |-> <<f>>]

SummaryLine(c, t) ==
    [line |-> "Succesfully plotted", count |-> c, total |-> t, names |-> <<>>]

Event(e, f) == [ev |-> e, file |-> f]

-----------------------------------------------------------------------------
(* main                                                                    *)

Init ==
    /\ dir \in Folders
    /\ dir0 = dir
    /\ listable \in BOOLEAN
    /\ outFormat \in Formats
    /\ pc = "start"
    /\ fileNames = <<>>
    /\ idx = 0
    /\ file = <<>>
    /\ XYZ = NoXYZ
    /\ count = 0
    /\ console = <<>>
    /\ prevConsole = <<>>
    /\ log = <<>>
    /\ fontSize = DefaultFontSize
    /\ figures = <<>>
    /\ run = 1
    /\ arg = <<>>
    /\ ret = <<>>

\* line 84: os.listdir returns the entries in some order, or raises.
GetFileNames ==
    /\ pc = "start"
    /\ IF listable
       THEN /\ fileNames' \in {get_fileNames(fileList) :
                                  fileList \in listdir(DOMAIN dir)}
            /\ pc' = "print_found"
       ELSE /\ pc' = "aborted"
            /\ UNCHANGED fileNames
    /\ UNCHANGED <<dir, dir0, listable, outFormat, idx, file, XYZ,
                   count, console, prevConsole, log, fontSize, figures, run,
                   arg, ret>>

\* lines 85-87
PrintFound ==
    /\ pc = "print_found"
    /\ console' = Append(console, FoundLine(fileNames))
    /\ log' = Append(log, Event("print_found", <<>>))
    /\ count' = 0
    /\ idx' = 1
    /\ pc' = "for"
    /\ UNCHANGED <<dir, dir0, listable, outFormat, fileNames, file,
                   XYZ, prevConsole, fontSize, figures, run, arg, ret>>

\* line 88
ForNext ==
    /\ pc = "for"
    /\ IF idx <= Len(fileNames)
       THEN /\ file' = fileNames[idx]
            /\ pc' = "load"
       ELSE /\ pc' = "summary"
            /\ UNCHANGED file
    /\ UNCHANGED <<dir, dir0, listable, outFormat, fileNames, idx,
                   XYZ, count, console, prevConsole, log, fontSize, figures,
                   run, arg, ret>>

\* line 90
Load ==
    /\ pc = "load"
    /\ \E r \in {get_XYZ(dir[file])} :
           /\ XYZ' = r
           /\ pc' = IF r.ok THEN "plot" ELSE "except"
    /\ log' = Append(log, Event("get_XYZ", file))
    /\ UNCHANGED <<dir, dir0, listable, outFormat, fileNames, idx,
                   file, count, console, prevConsole, fontSize, figures, run,
                   arg, ret>>

\* line 91: the figure of line 52 is opened under the font size then in
\* force and stays open; line 55 is reached once contourf has returned.
Plot ==
    /\ pc = "plot"
    /\ \E r \in {plot_contour(XYZ.X, XYZ.Y, XYZ.Z, file, outFormat)} :
           /\ figures' = Append(figures, [file |-> file, font |-> fontSize])
           /\ fontSize' = IF r.failedAt = "contourf" THEN fontSize
                          ELSE FontSizeUpdate
           /\ dir' = IF r.failedAt = "none"
                     THEN [n \in DOMAIN dir \cup {r.outName} |->
                              IF n = r.outName THEN Image ELSE dir[n]]
                     ELSE dir
           /\ pc' = IF r.failedAt = "none" THEN "incr" ELSE "except"
    /\ log' = Append(log, Event("plot_contour", file))
    /\ UNCHANGED <<dir0, listable, outFormat, fileNames, idx, file,
                   XYZ, count, console, prevConsole, run, arg, ret>>

\* line 92
Incr ==
    /\ pc = "incr"
    /\ count' = count + 1
    /\ idx' = idx + 1
    /\ pc' = "for"
    /\ UNCHANGED <<dir, dir0, listable, outFormat, fileNames, file,
                   XYZ, console, prevConsole, log, fontSize, figures, run,
                   arg, ret>>

\* A handler that counts the failed file.
ExceptCounts ==
    /\ pc = "except"
    /\ console' = Append(console, FailedLine(file))
    /\ log' = Append(log, Event("print_failed", file))
    /\ count' = count + 1
    /\ idx' = idx + 1
    /\ pc' = "for"
    /\ UNCHANGED <<dir, dir0, listable, outFormat, fileNames, file,
                   XYZ, prevConsole, fontSize, figures, run, arg, ret>>

\* A handler that leaves the loop.
ExceptBreaks ==
    /\ pc = "except"
    /\ console' = Append(console, FailedLine(file))
    /\ log' = Append(log, Event("print_failed", file))
    /\ idx' = idx + 1
    /\ pc' = "summary"
    /\ UNCHANGED <<dir, dir0, listable, outFormat, fileNames, file,
                   XYZ, count, prevConsole, fontSize, figures, run, arg, ret>>

\* lines 93-95
Except ==
    /\ pc = "except"
    /\ console' = Append(console, FailedLine(file))
    /\ log' = Append(log, Event("print_failed", file))
    /\ idx' = idx + 1
    /\ pc' = "for"
    /\ UNCHANGED <<dir, dir0, listable, outFormat, fileNames, file,
                   XYZ, count, prevConsole, fontSize, figures, run, arg, ret>>

\* line 97
PrintSummary ==
    /\ pc = "summary"
    /\ console' = Append(console, SummaryLine(count, Len(fileNames)))
    /\ log' = Append(log, Event("print_summary", <<>>))
    /\ pc' = "exit"
    /\ UNCHANGED <<dir, dir0, listable, outFormat, fileNames, idx,
                   file, XYZ, count, prevConsole, fontSize, figures, run,
                   arg, ret>>

\* lines 99-100: the script is invoked again over the folder as the finished
\* process left it; the new process starts with fresh interpreter state.
Rerun ==
    /\ pc = "exit"
    /\ run < MaxRuns
    /\ run' = run + 1
    /\ dir0' = dir
    /\ prevConsole' = console
    /\ console' = <<>>
    /\ log' = <<>>
    /\ fontSize' = DefaultFontSize
    /\ figures' = <<>>
    /\ fileNames' = <<>>
    /\ idx' = 0
    /\ file' = <<>>
    /\ XYZ' = NoXYZ
    /\ count' = 0
    /\ pc' = "start"
    /\ UNCHANGED <<dir, listable, outFormat, arg, ret>>

Next ==
    \/ GetFileNames
    \/ PrintFound
    \/ ForNext
    \/ Load
    \/ Plot
    \/ Incr
    \/ Except
    \/ PrintSummary
    \/ Rerun

Spec == Init /\ [][Next]_vars

\* A single-threaded process that can take a step takes it.
FairSpec == Init /\ [][Next]_vars /\ WF_vars(Next)

-----------------------------------------------------------------------------
(* The functions on their own: the argument is drawn by the initial state  *)
(* and one call is made.  The variables of main are idle.                  *)

MainIdle ==
    /\ dir = <<>>
    /\ dir0 = <<>>
    /\ listable = TRUE
    /\ outFormat = Png
    /\ fileNames = <<>>
    /\ idx = 0
    /\ file = <<>>
    /\ XYZ = NoXYZ
    /\ count = 0
    /\ console = <<>>
    /\ prevConsole = <<>>
    /\ log = <<>>
    /\ fontSize = DefaultFontSize
    /\ figures = <<>>
    /\ run = 1

\* Entry names a listing may hold.
ListPool ==
    NamePool \cup {<<".", "c", "s", "v">>, <<"c", "s", "v">>,
                   <<"a", ".", "c", "s", "v", ".", "p", "n", "g">>}

\* os.listdir: the entries of the folder, each once, in any order.
Listings(maxLen) ==
    UNION {Perms(S) : S \in {T \in SUBSET ListPool : Cardinality(T) <= maxLen}}

ListInit ==
    /\ MainIdle
    /\ pc = "call"
    /\ arg \in Listings(MaxList)
    /\ ret = <<>>

CallGetFileNames ==
    /\ pc = "call"
    /\ ret' = get_fileNames(arg)
    /\ pc' = "return"
    /\ UNCHANGED <<mainVars, arg>>

ListSpec == ListInit /\ [][CallGetFileNames]_vars

DigitChars == <<"0", "1", "2", "3", "4", "5", "6", "7", "8", "9">>

RECURSIVE ToDigits(_)
ToDigits(n) ==
    IF n < 10 THEN <<DigitChars[n + 1]>>
    ELSE ToDigits(n \div 10) \o <<DigitChars[(n % 10) + 1]>>

\* Tables of up to maxDim rows and columns: the labels are wavelengths 10 nm
\* apart, at most one column label is no integer, and the intensities of a
\* table all differ.
LoadTables(maxDim, maxBase) ==
    UNION {{Table([j \in 1..m |-> IF j = bad THEN <<"3", "0", "0", ".", "5">>
                                  ELSE ToDigits(300 + 10 * (j - 1))],
                  [i \in 1..n |-> 350 + 10 * (i - 1)],
                  [i \in 1..n |-> [j \in 1..m |-> 100 * base + 10 * i + j]]) :
               bad \in 0..m, base \in 0..maxBase} :
           n \in 1..maxDim, m \in 1..maxDim}

LoadInit ==
    /\ MainIdle
    /\ pc = "call"
    /\ arg \in LoadTables(MaxDim, MaxBase)
    /\ ret = <<>>

CallGetXYZ ==
    /\ pc = "call"
    /\ ret' = get_XYZ(arg)
    /\ pc' = "return"
    /\ UNCHANGED <<mainVars, arg>>

LoadSpec == LoadInit /\ [][CallGetXYZ]_vars

\* Intensities just below, at and just above the middle between two hundreds,
\* from -163 up to 100 * maxH + 60.
Intensities(maxH) == {100 * h + r : h \in (-2)..maxH, r \in {37, 50, 60}}

\* What get_XYZ returns for the two-by-two tables over Intensities.
PlotInputs(maxH) ==
    {get_XYZ(Table(<<W300, W310>>, <<350, 360>>, body)) :
        body \in [1..2 -> [1..2 -> Intensities(maxH)]]}

PlotInit ==
    /\ MainIdle
    /\ pc = "call"
    /\ arg \in PlotInputs(MaxH)
    /\ ret = <<>>

CallPlotContour ==
    /\ pc = "call"
    /\ ret' = plot_contour(arg.X, arg.Y, arg.Z, <<"a", ".", "c", "s", "v">>,
                           Png)
    /\ pc' = "return"
    /\ UNCHANGED <<mainVars, arg>>

PlotSpec == PlotInit /\ [][CallPlotContour]_vars

-----------------------------------------------------------------------------
(* Notions the properties are stated in, written without the operators of  *)
(* the program.                                                            *)

IsCsvName(n) ==
    /\ Len(n) >= 4
    /\ n[Len(n) - 3] = "."
    /\ n[Len(n) - 2] = "c"
    /\ n[Len(n) - 1] = "s"
    /\ n[Len(n)] = "v"

\* a comes strictly before b in the order of Python's string comparison.
LexBefore(a, b) ==
    \E k \in 1..(Len(b)) :
        /\ k <= Len(a) + 1
        /\ \A i \in 1..(k - 1) : a[i] = b[i]
        /\ k = Len(a) + 1 \/ Ord[a[k]] < Ord[b[k]]

Abs(v) == IF v < 0 THEN -v ELSE v

\* The largest intensity of a frame.
MaxEntry(Z) ==
    LET all == {Z.values[i][j] : i \in 1..Len(Z.index), j \in 1..Len(Z.columns)}
    IN  CHOOSE v \in all : \A w \in all : w <= v

CsvNames(d) == {n \in DOMAIN d : IsCsvName(n)}

\* Both calls of lines 90-91 return for file f of folder d.
Succeeds(d, f) ==
    LET r == get_XYZ(d[f])
    IN  /\ r.ok
        /\ plot_contour(r.X, r.Y, r.Z, f, outFormat).failedAt = "none"

Mentions(lines, l) == Cardinality({i \in DOMAIN lines : lines[i] = l})

-----------------------------------------------------------------------------
(* C3: get_fileNames returns exactly the entries of the listing that end   *)
(* with ".csv" (lower case), each once, in ascending lexicographic order,  *)
(* and returns the same for every order of the same entries.               *)
C3_ListsExactlySortedCsv ==
    pc = "return" =>
        /\ Range(ret) = {n \in Range(arg) : IsCsvName(n)}
        /\ \A i \in 1..(Len(ret) - 1) : LexBefore(ret[i], ret[i + 1])
        /\ \A other \in Perms(Range(arg)) : get_fileNames(other) = ret

\* A listing of at least two eligible names out of order, next to an
\* upper-case .CSV entry that is left out.
C3_Witness ==
    /\ pc = "return"
    /\ Len(ret) >= 2
    /\ <<"c", ".", "C", "S", "V">> \in Range(arg) \ Range(ret)
    /\ \E i, j \in DOMAIN arg :
          i < j /\ IsCsvName(arg[i]) /\ IsCsvName(arg[j])
                /\ LexBefore(arg[j], arg[i])

-----------------------------------------------------------------------------
-----------------------------------------------------------------------------
(* C4 as stated: maxZ is the largest intensity of Z rounded down to a      *)
(* multiple of 100.                                                        *)
C4_MaxZRoundedDown ==
    pc = "return" => ret.maxZ = 100 * (MaxEntry(arg.Z) \div 100)

(* C4 as amended: maxZ is the multiple of 100 nearest to the largest       *)
(* intensity of Z, and when that lies midway between two multiples, the    *)
(* one that is an even number of hundreds.                                 *)
C4_MaxZRoundedToNearest ==
    pc = "return" =>
        LET v == MaxEntry(arg.Z)
            z == ret.maxZ
        IN  /\ z % 100 = 0
            /\ 2 * Abs(v - z) <= 100
            /\ 2 * Abs(v - z) = 100 => (z \div 100) % 2 = 0

\* A largest intensity of 460, for which plot_contour computed 500.
C4_Witness ==
    /\ pc = "return"
    /\ MaxEntry(arg.Z) = 460
    /\ ret.maxZ = 500

-----------------------------------------------------------------------------
(* C5: whenever plot_contour renders Z, the colorbar ticks are the six     *)
(* values k * maxZ / 5 for k = 0..5.                                       *)
C5_SixTicksUpToMaxZ ==
    (pc = "return" /\ ret.failedAt = "none") =>
        /\ Len(ret.ticks) = 6
        /\ \A k \in 0..5 : 5 * ret.ticks[k + 1] = k * ret.maxZ

-----------------------------------------------------------------------------
(* C1: when the listing succeeds, every failure of lines 90-91 is caught   *)
(* and answered by one failure line naming the file, and the summary       *)
(* reports count/total with total the number of discovered files and count *)
(* the number of them for which get_XYZ and plot_contour both returned.    *)
C1_SummaryCountsSuccesses ==
    pc = "exit" =>
        LET names == CsvNames(dir0)
            good  == {f \in names : Succeeds(dir0, f)}
        IN  /\ console[Len(console)]
                  = SummaryLine(Cardinality(good), Cardinality(names))
            /\ \A f \in names :
                  Mentions(console, FailedLine(f)) = IF f \in good THEN 0 ELSE 1

\* A finished run over three files of which the first failed and a later
\* one was plotted and counted.
C1_Witness ==
    /\ pc = "exit"
    /\ Len(fileNames) = 3
    /\ console[2] = FailedLine(fileNames[1])
    /\ count >= 1

-----------------------------------------------------------------------------
(* C2: the discovery line is the first thing a run does after listing;     *)
(* the files are then attempted one after the other, each once, in the     *)
(* order of fileNames, plot_contour only right after the get_XYZ of the    *)
(* same file, a failure line only right after the call that failed; the    *)
(* summary comes once, last, after every file was attempted; and a run     *)
(* whose listing succeeds always reaches its exit.                         *)
C2_Order ==
    LET loads == SelectSeq(log, LAMBDA e : e.ev = "get_XYZ")
    IN  /\ log # <<>> => log[1].ev = "print_found"
        /\ listable => pc # "aborted"
        /\ Len(loads) <= Len(fileNames)
        /\ \A k \in DOMAIN loads : loads[k].file = fileNames[k]
        /\ \A i \in DOMAIN log :
              /\ log[i].ev = "print_found" => i = 1
              /\ log[i].ev = "get_XYZ" =>
                    log[i - 1].ev \in {"print_found", "plot_contour",
                                       "print_failed"}
              /\ log[i].ev = "plot_contour" =>
                    log[i - 1] = Event("get_XYZ", log[i].file)
              /\ log[i].ev = "print_failed" =>
                    /\ log[i - 1].ev \in {"get_XYZ", "plot_contour"}
                    /\ log[i - 1].file = log[i].file
              /\ log[i].ev = "print_summary" =>
                    i = Len(log) /\ Len(loads) = Len(fileNames)
        /\ pc = "exit" =>
              /\ log[Len(log)].ev = "print_summary"
              /\ Len(loads) = Len(fileNames)

C2_OneAtATimeInOrder ==
    /\ []C2_Order
    /\ (pc = "start" /\ listable) ~> (pc = "exit")

\* A finished run over three files in which the second failed in
\* plot_contour and the third was still loaded.
C2_Witness ==
    /\ pc = "exit"
    /\ Len(fileNames) = 3
    /\ \E i \in DOMAIN log :
          /\ i + 2 <= Len(log)
          /\ log[i] = Event("plot_contour", fileNames[2])
          /\ log[i + 1] = Event("print_failed", fileNames[2])
          /\ log[i + 2] = Event("get_XYZ", fileNames[3])

-----------------------------------------------------------------------------
(* C6: plot_contour raises for every file whose largest intensity is not   *)
(* positive, so that such a file gets a failure line and is not counted.   *)
C6_NoPositiveMaximumFails ==
    /\ pc = "incr" => MaxEntry(XYZ.Z) > 0
    /\ pc = "exit" =>
          \A f \in CsvNames(dir0) :
              (get_XYZ(dir0[f]).ok /\ MaxEntry(get_XYZ(dir0[f]).Z) <= 0)
                  => Mentions(console, FailedLine(f)) = 1

-----------------------------------------------------------------------------
(* C8: a file is processed as it would be in a run over that file alone:   *)
(* its figure is created under the font size of a fresh process, and it    *)
(* succeeds exactly when it would alone.                                   *)
C8_UnaffectedByEarlierFiles ==
    /\ \A i \in DOMAIN figures : figures[i].font = DefaultFontSize
    /\ pc = "incr" => Succeeds(dir0, file)
    /\ pc = "except" => ~Succeeds(dir0, file)

-----------------------------------------------------------------------------
(* C10: no figure of an earlier file is open when main starts on a file    *)
(* or prints the summary, and never more than one figure is open.          *)
C10_FiguresDiscarded ==
    /\ Len(figures) <= 1
    /\ pc \in {"load", "summary"} => figures = <<>>

-----------------------------------------------------------------------------
(* C9: for the formats png, svg and pdf, the only entries a run adds or    *)
(* changes are named as an input with ".csv" replaced by "." and the       *)
(* format; none of them is an eligible input and no input changes; every   *)
(* plotted file has its image in the folder; and a run over the folder a   *)
(* previous run left prints, line for line, what that run printed.         *)
C9_SecondRunRepeatsFirst ==
    outFormat \in {Png, Svg, Pdf} =>
        /\ \A n \in DOMAIN dir0 : n \in DOMAIN dir
        /\ \A n \in DOMAIN dir :
              (n \notin DOMAIN dir0 \/ dir[n] # dir0[n]) =>
                  /\ ~IsCsvName(n)
                  /\ dir[n] = Image
                  /\ \E f \in CsvNames(dir0) : \E k \in 0..Len(f) :
                        /\ f = SubSeq(f, 1, k) \o <<".", "c", "s", "v">>
                        /\ n = SubSeq(f, 1, k) \o <<".">> \o outFormat
        /\ pc = "incr" =>
              \E k \in 0..Len(file) :
                  /\ file = SubSeq(file, 1, k) \o <<".", "c", "s", "v">>
                  /\ (SubSeq(file, 1, k) \o <<".">> \o outFormat) \in DOMAIN dir
                  /\ dir[SubSeq(file, 1, k) \o <<".">> \o outFormat] = Image
        /\ (run >= 2 /\ pc = "exit") => console = prevConsole

\* A second run, finished, that plotted a.csv over the a.png of the first
\* run and reported a failure for another file.
C9_Witness ==
    /\ run = 2
    /\ pc = "exit"
    /\ outFormat = Png
    /\ <<"a", ".", "c", "s", "v">> \in DOMAIN dir0
    /\ <<"a", ".", "p", "n", "g">> \in DOMAIN dir0
    /\ dir0[<<"a", ".", "p", "n", "g">>] = Image
    /\ dir[<<"a", ".", "p", "n", "g">>] = Image
    /\ count >= 1
    /\ count < Len(fileNames)

====
